---------------------------- MODULE Spec2Model ----------------------------
(***************************************************************************)
(* A model of the plainly content-script pipeline:                         *)
(*   TextExtractor          src/unnamed/part_000  (lines 361-480)          *)
(*   PlainlyContentScript   src/unnamed/part_000  (lines 74-348)           *)
(*   DomTranslator          src/extension/src/content/dom-translator.ts    *)
(*   TranslationCache       src/extension/src/content/dom-translator.ts    *)
(*                                                                         *)
(* A string is a sequence of characters.  A character is one of the        *)
(* one-element strings of Chars: " " is white space, "a" and "b" are Latin *)
(* letters, "ga" and "na" stand for the Hangul syllables U+AC00 and U+B098 *)
(* (one UTF-16 unit each), "1" is a digit.                                 *)
(*                                                                         *)
(* JavaScript runs every handler to completion.  One macrotask (a message, *)
(* a timer, a mutation callback, a backend response) is modelled as one    *)
(* external action followed by the steps of the variable task, the         *)
(* synchronous work the handler still has to do; no external action is     *)
(* enabled while task is non-empty.                                        *)
(***************************************************************************)
EXTENDS Integers, Sequences, FiniteSets, TLC

(***************************************************************************)
(* Bounds of the model.  maxSize and ttl are the cache's fields, scaled    *)
(* down from 1000 entries and 24 h; MAX_TEXTS_PER_REQUEST,                 *)
(* MAX_CONCURRENT_REQUESTS, MIN_TEXT_LENGTH and MAX_TEXT_LENGTH are        *)
(* imported from @shared/constants, whose values the sources do not give.  *)
(***************************************************************************)
NumElems == 2
MaxLog == 2
MaxTime == 3
MaxCalls == 2
MaxEvents == 9
MaxOldTimers == 1
MaxShadowObservers == 2
MaxPending == 3
maxSize == 3
ttl == 2
MAX_TEXTS_PER_REQUEST == 1
MAX_CONCURRENT_REQUESTS == 2
MIN_TEXT_LENGTH == 1
MAX_TEXT_LENGTH == 6
MaxLetters == 10
MaxOther == 2
MaxChunkNodes == 4
MaxChunkSize == 3

---------------------------------------------------------------------------
(* Strings *)

Chars == {" ", "a", "b", "ga", "na", "1"}

IsSpace(c) == c = " "
IsLatin(c) == c \in {"a", "b"}
IsHangul(c) == c \in {"ga", "na"}

\* the sentinel for "no string" (null / undefined); "none" is not a character
NoText == <<"none">>

\* originalFull.match(/^\s*/)[0]: the longest prefix of white space
LeadLen(s) ==
  CHOOSE k \in 0..Len(s) :
    /\ \A i \in 1..k : IsSpace(s[i])
    /\ (k = Len(s) \/ ~IsSpace(s[k + 1]))

\* originalFull.match(/\s*$/)[0]: the longest suffix of white space
TrailLen(s) ==
  CHOOSE k \in 0..Len(s) :
    /\ \A i \in (Len(s) - k + 1)..Len(s) : IsSpace(s[i])
    /\ (k = Len(s) \/ ~IsSpace(s[Len(s) - k]))

\* String.prototype.trim
Trim(s) == SubSeq(s, LeadLen(s) + 1, Len(s) - TrailLen(s))

\* text.match(/re/g).length for a character class
CountChars(s, P(_)) == Cardinality({i \in 1..Len(s) : P(s[i])})

---------------------------------------------------------------------------
(* The page: two text nodes directly in the body; every dynamic element e  *)
(* owns one text node, which lives in e's shadow root when e hosts one.    *)

Elems == 1..NumElems
NumNodes == NumElems + 2
Nodes == 1..NumNodes
Body == 0

Home(n) == IF n <= 2 THEN Body ELSE n - 2
HasShadow(e) == e % 2 = 0
NodeOf(e) == e + 2

InitText(n) ==
  CASE n % 4 = 1 -> <<" ", "a", "b">>
    [] n % 4 = 2 -> <<"b", "a", " ">>
    [] n % 4 = 3 -> <<"a", "b">>
    [] OTHER     -> <<" ", "b", "b", " ">>

\* getBoundingClientRect of the parent element intersects the window
InViewport(n) == n # 2

Langs == {"en", "ko"}


---------------------------------------------------------------------------
(* TextExtractor *)

\* isNonTranslatable: letterCount / text.length < 0.3
LetterChar(c) == IsLatin(c) \/ IsHangul(c)
isNonTranslatable(text) == 10 * CountChars(text, LetterChar) < 3 * Len(text)

\* detectLanguage with the boundary ratios classified
detectLanguageInclusive(text) ==
  LET koreanChars == CountChars(text, IsHangul)
      englishChars == CountChars(text, IsLatin)
      total == koreanChars + englishChars
  IN  IF total = 0 THEN "mixed"
      ELSE IF 10 * koreanChars >= 7 * total THEN "ko"
      ELSE IF 10 * koreanChars <= 3 * total THEN "en"
      ELSE "mixed"

\* detectLanguage: koreanRatio > 0.7 is ko, < 0.3 is en, else mixed
detectLanguage(text) ==
  LET koreanChars == CountChars(text, IsHangul)
      englishChars == CountChars(text, IsLatin)
      total == koreanChars + englishChars
  IN  IF total = 0 THEN "mixed"
      ELSE IF 10 * koreanChars > 7 * total THEN "ko"
      ELSE IF 10 * koreanChars < 3 * total THEN "en"
      ELSE "mixed"

isSourceLanguage(text, sourceLang) ==
  LET detected == detectLanguage(text)
  IN  IF detected = "mixed" THEN TRUE ELSE detected = sourceLang

\* filterTextNode and the checks of the walker loop, for a node whose parent
\* element is a rendered, non-editable element with a tag outside SKIP_TAGS
\* (every element of the modelled page is one): the trimmed text is not
\* empty, is translatable, and has a length within the limits.
AcceptText(full) ==
  LET text == Trim(full)
  IN  /\ Len(text) > 0
      /\ ~isNonTranslatable(text)
      /\ ~(Len(text) < MIN_TEXT_LENGTH \/ Len(text) > MAX_TEXT_LENGTH)

\* The roots extractTextNodes is called on: the body, an added element, or
\* the shadow root of an added element.
BodyRoot == [kind |-> "body", e |-> Body]
ElemRoot(e) == [kind |-> "elem", e |-> e]
ShadowRootOf(e) == [kind |-> "shadow", e |-> e]

\* The text node n is reached by the TreeWalker of extractFromNode(root):
\* the walker stays in root's own tree and does not enter shadow trees.
InLightTree(root, n, att) ==
  CASE root.kind = "body"   -> Home(n) = Body \/ (att[Home(n)] /\ ~HasShadow(Home(n)))
    [] root.kind = "elem"   -> Home(n) = root.e /\ ~HasShadow(root.e)
    [] OTHER                -> Home(n) = root.e /\ HasShadow(root.e)

\* extractFromShadowRoots: the shadow roots of root's descendants (not of
\* root itself) are walked after root's own tree.
InShadowTrees(root, n, att) ==
  /\ root.kind = "body"
  /\ Home(n) # Body /\ att[Home(n)] /\ HasShadow(Home(n))

NodeSeq == [i \in 1..NumNodes |-> i]

\* extractTextNodes(root): the TextNodeInfo list, in the order the walker
\* produces it.  A node of a detached element has a parent with an empty
\* bounding box (isElementVisible fails); a node without parent is not in
\* any tree.
extractTextNodes(root, cont, par, att) ==
  LET Live(n) == par[n] /\ (Home(n) = Body \/ att[Home(n)]) /\ AcceptText(cont[n])
      Light(n) == InLightTree(root, n, att) /\ Live(n)
      Shadow(n) == InShadowTrees(root, n, att) /\ Live(n)
      order == SelectSeq(NodeSeq, Light) \o SelectSeq(NodeSeq, Shadow)
  IN  [i \in 1..Len(order) |->
         [node |-> order[i], originalText |-> Trim(cont[order[i]])]]

\* sortByViewport: a stable sort, visible parents first
sortByViewport(nodes) ==
  LET Vis(x) == InViewport(x.node)
      Hid(x) == ~InViewport(x.node)
  IN  SelectSeq(nodes, Vis) \o SelectSeq(nodes, Hid)

---------------------------------------------------------------------------
(* DomTranslator.  Its state is the record                                 *)
(*   [content, translations, isTranslated]                                 *)
(* content being the textContent of every text node of the page.           *)

\* a null / undefined element of translatedTexts
NullTranslation == [original |-> NoText, translated |-> NoText]

\* replaceNodeText: the new textContent of a node whose content is full
replaceNodeText(full, newText) ==
  SubSeq(full, 1, LeadLen(full)) \o newText
    \o SubSeq(full, Len(full) - TrailLen(full) + 1, Len(full))

\* the body of the for loop of applyTranslations, from index i on
RECURSIVE ApplyLoop(_, _, _, _)
ApplyLoop(d, textNodes, translatedTexts, i) ==
  IF i > Len(textNodes) THEN d
  ELSE
    LET nodeInfo == textNodes[i]
        translation == translatedTexts[i]
    IN  IF translation = NullTranslation
           \/ translation.original = translation.translated
        THEN ApplyLoop(d, textNodes, translatedTexts, i + 1)
        ELSE ApplyLoop(
               [d EXCEPT
                  !.translations = Append(@, [node |-> nodeInfo.node,
                                              original |-> nodeInfo.originalText,
                                              translated |-> translation.translated]),
                  !.content[nodeInfo.node] =
                      replaceNodeText(@, translation.translated)],
               textNodes, translatedTexts, i + 1)

\* applyTranslations going through the pairs both lists have when the
\* lengths differ
applyTranslationsPartial(d, textNodes, translatedTexts) ==
  LET m == IF Len(textNodes) < Len(translatedTexts)
           THEN Len(textNodes) ELSE Len(translatedTexts)
  IN  [ApplyLoop(d, SubSeq(textNodes, 1, m), SubSeq(translatedTexts, 1, m), 1)
         EXCEPT !.isTranslated = TRUE]

applyTranslations(d, textNodes, translatedTexts) ==
  IF Len(textNodes) # Len(translatedTexts) THEN d
  ELSE [ApplyLoop(d, textNodes, translatedTexts, 1) EXCEPT !.isTranslated = TRUE]

\* the loop of restoreOriginal writing to detached nodes too
RECURSIVE RestoreLoopAll(_, _, _, _)
RestoreLoopAll(cont, records, par, i) ==
  IF i > Len(records) THEN cont
  ELSE RestoreLoopAll(
         [cont EXCEPT ![records[i].node] = replaceNodeText(@, records[i].original)],
         records, par, i + 1)

\* the for loop of restoreOriginal over the records, from index i on
RECURSIVE RestoreLoop(_, _, _, _)
RestoreLoop(cont, records, par, i) ==
  IF i > Len(records) THEN cont
  ELSE
    LET record == records[i]
    IN  RestoreLoop(
          IF par[record.node]
          THEN [cont EXCEPT ![record.node] = replaceNodeText(@, record.original)]
          ELSE cont,
          records, par, i + 1)

\* restoreOriginal undoing the last record only
restoreLastRecord(d, par) ==
  IF ~d.isTranslated THEN d
  ELSE IF Len(d.translations) = 0 THEN [d EXCEPT !.isTranslated = FALSE]
  ELSE
    LET record == d.translations[Len(d.translations)]
    IN  [content |-> IF par[record.node]
                     THEN [d.content EXCEPT
                             ![record.node] = replaceNodeText(@, record.original)]
                     ELSE d.content,
         translations |-> SubSeq(d.translations, 1, Len(d.translations) - 1),
         isTranslated |-> Len(d.translations) > 1]

restoreOriginal(d, par) ==
  IF ~d.isTranslated THEN d
  ELSE [content |-> RestoreLoop(d.content, d.translations, par, 1),
        translations |-> <<>>,
        isTranslated |-> FALSE]

getStatus(d) == [isTranslated |-> d.isTranslated, count |-> Len(d.translations)]

---------------------------------------------------------------------------
(* TranslationCache.  The Map is the sequence of its entries in insertion  *)
(* order (the order a Map iterates in); an entry is                        *)
(*   [key, translated, timestamp].                                         *)

\* generateKey: `${sourceLang}:${targetLang}:${text}`
generateKey(text, sourceLang, targetLang) ==
  <<sourceLang, ":", targetLang, ":">> \o text

HasKey(c, key) == \E i \in 1..Len(c) : c[i].key = key
IndexOfKey(c, key) == CHOOSE i \in 1..Len(c) : c[i].key = key
EntryOf(c, key) == c[IndexOfKey(c, key)]
RemoveAt(c, i) == SubSeq(c, 1, i - 1) \o SubSeq(c, i + 1, Len(c))

\* Map.prototype.set: a present key keeps its place in the iteration order
MapSet(c, key, entry) ==
  IF HasKey(c, key)
  THEN [c EXCEPT ![IndexOfKey(c, key)] = entry]
  ELSE Append(c, entry)

\* get with the expiry test off by one (>= for >)
getExpiresAtTtl(c, time, text, sourceLang, targetLang) ==
  LET key == generateKey(text, sourceLang, targetLang)
  IN  IF ~HasKey(c, key) THEN [cache |-> c, result |-> NoText]
      ELSE
        LET i == IndexOfKey(c, key)
        IN  IF time - c[i].timestamp >= ttl
            THEN [cache |-> RemoveAt(c, i), result |-> NoText]
            ELSE [cache |-> c, result |-> c[i].translated]

\* get: [cache, result], result being NoText for null
get(c, time, text, sourceLang, targetLang) ==
  LET key == generateKey(text, sourceLang, targetLang)
  IN  IF ~HasKey(c, key) THEN [cache |-> c, result |-> NoText]
      ELSE
        LET i == IndexOfKey(c, key)
        IN  IF time - c[i].timestamp > ttl
            THEN [cache |-> RemoveAt(c, i), result |-> NoText]
            ELSE [cache |-> c, result |-> c[i].translated]

\* evictOldest removing the entry inserted last instead
evictNewest(c) == IF Len(c) = 0 THEN c ELSE RemoveAt(c, Len(c))

\* evictOldest: the first entry, in iteration order, with the least timestamp
evictOldest(c) ==
  IF Len(c) = 0 THEN c
  ELSE
    LET i == CHOOSE j \in 1..Len(c) :
               /\ \A k \in 1..Len(c) : c[j].timestamp <= c[k].timestamp
               /\ \A k \in 1..(j - 1) : c[k].timestamp > c[j].timestamp
    IN  RemoveAt(c, i)

set(c, time, text, translated, sourceLang, targetLang) ==
  LET c1 == IF Len(c) >= maxSize THEN evictOldest(c) ELSE c
      key == generateKey(text, sourceLang, targetLang)
  IN  MapSet(c1, key, [key |-> key, translated |-> translated, timestamp |-> time])

\* the forEach of getMultiple reporting a miss under its position counted
\* from one
RECURSIVE GetMultipleLoopOneBased(_, _, _, _, _, _)
GetMultipleLoopOneBased(r, time, texts, sourceLang, targetLang, i) ==
  IF i > Len(texts) THEN r
  ELSE
    LET g == get(r.cache, time, texts[i], sourceLang, targetLang)
        hit == g.result # NoText /\ Len(g.result) > 0
    IN  GetMultipleLoopOneBased(
          [cache |-> g.cache,
           cached |-> IF hit
                      THEN Append(r.cached, [index |-> i - 1, translated |-> g.result])
                      ELSE r.cached,
           uncached |-> IF hit
                        THEN r.uncached
                        ELSE Append(r.uncached, [index |-> i, text |-> texts[i]])],
          time, texts, sourceLang, targetLang, i + 1)

\* getMultiple: the forEach over texts from position i on (index i - 1);
\* cached is the Map index -> translation as the sequence of its entries,
\* and an empty cached translation is falsy
RECURSIVE GetMultipleLoop(_, _, _, _, _, _)
GetMultipleLoop(r, time, texts, sourceLang, targetLang, i) ==
  IF i > Len(texts) THEN r
  ELSE
    LET g == get(r.cache, time, texts[i], sourceLang, targetLang)
        hit == g.result # NoText /\ Len(g.result) > 0
    IN  GetMultipleLoop(
          [cache |-> g.cache,
           cached |-> IF hit
                      THEN Append(r.cached, [index |-> i - 1, translated |-> g.result])
                      ELSE r.cached,
           uncached |-> IF hit
                        THEN r.uncached
                        ELSE Append(r.uncached, [index |-> i - 1, text |-> texts[i]])],
          time, texts, sourceLang, targetLang, i + 1)

getMultiple(c, time, texts, sourceLang, targetLang) ==
  GetMultipleLoop([cache |-> c, cached |-> <<>>, uncached |-> <<>>],
                  time, texts, sourceLang, targetLang, 1)

---------------------------------------------------------------------------
(* State *)

VARIABLES
  \* the page
  content,          \* textContent of every text node
  parentNode,       \* the text node still has a parent (node.parentNode)
  attached,         \* the dynamic element is in the document
  \* DomTranslator
  translations,     \* the records, in push order
  isTranslated,
  \* TranslationCache and the clock Date.now()
  cache,
  now,
  \* PlainlyContentScript
  initPc,           \* where init() is: "settings", "enabling", "done", "failed"
  isEnabled,
  settings,         \* [sourceLang, targetLang]
  observer,         \* this.observer is a connected MutationObserver
  shadowObservers,  \* the hosts whose shadow roots are observed, in push order
  debounceTimer,    \* the current handleMutations closure has a timer pending
  pendingNodes,     \* the buffer of the current handleMutations closure
  oldTimers,        \* buffers of superseded closures whose timer is pending
  translatingNodes,
  calls,            \* the translateNodesParallel calls in progress
  task,             \* what the running handler still has to do
  cacheFrom,        \* history: the language pair of the request behind an entry
  events,           \* the number of macrotasks run so far
  unanswered,       \* TOGGLE_TRANSLATION messages without a sendResponse yet
  \* history, for the statements about DomTranslator and TranslationCache
  infos,            \* the TextNodeInfo list of the last extraction
  base,             \* a node's content before its first substitution
  restoredFrom,     \* what restoreOriginal had to bring a node back to
  lastOp            \* the last cache operation

pageVars == <<content, parentNode, attached>>
domVars == <<translations, isTranslated>>
cacheVars == <<cache, now>>
histVars == <<infos, base, restoredFrom, lastOp>>
orchVars == <<initPc, isEnabled, settings, observer, shadowObservers,
              debounceTimer, pendingNodes, oldTimers, translatingNodes,
              calls, task, cacheFrom, events, unanswered>>

vars == <<pageVars, domVars, cacheVars, histVars, orchVars>>

Dom == [content |-> content, translations |-> translations,
        isTranslated |-> isTranslated]

SetDom(d) ==
  /\ content' = d.content
  /\ translations' = d.translations
  /\ isTranslated' = d.isTranslated

NoOp == [op |-> "none"]

\* History of a call of applyTranslations that took the translator from
\* Dom to d: the nodes of the new records are substituted.
TrackApply(d) ==
  LET new == {d.translations[i].node :
                i \in (Len(translations) + 1)..Len(d.translations)}
  IN  /\ base' = [n \in Nodes |->
                    IF n \in new /\ base[n] = NoText THEN content[n] ELSE base[n]]
      /\ restoredFrom' = [n \in Nodes |->
                    IF n \in new THEN NoText ELSE restoredFrom[n]]

\* History of a call of restoreOriginal
TrackRestore ==
  IF ~isTranslated THEN UNCHANGED <<base, restoredFrom>>
  ELSE /\ restoredFrom' = [n \in Nodes |->
                             IF parentNode[n] /\ base[n] # NoText
                             THEN base[n] ELSE restoredFrom[n]]
       /\ base' = [n \in Nodes |-> NoText]

InitPage ==
  /\ content = [n \in Nodes |-> InitText(n)]
  /\ parentNode = [n \in Nodes |-> TRUE]
  /\ attached = [e \in Elems |-> FALSE]

InitDomTranslator ==
  /\ translations = <<>>
  /\ isTranslated = FALSE

InitCache ==
  /\ cache = <<>>
  /\ now = 0

NoPayload == [sourceLang |-> "none", targetLang |-> "none"]

NoCall ==
  [active |-> FALSE, settled |-> FALSE, cont |-> "none", nodes |-> <<>>,
   cached |-> <<>>, uncached |-> <<>>, batches |-> <<>>, status |-> <<>>,
   payload |-> <<>>, wave |-> 0]

InitOrch ==
  /\ initPc = "settings"
  /\ isEnabled = FALSE
  /\ settings = [sourceLang |-> "en", targetLang |-> "ko"]
  /\ observer = FALSE
  /\ shadowObservers = <<>>
  /\ debounceTimer = FALSE
  /\ pendingNodes = <<>>
  /\ oldTimers = <<>>
  /\ translatingNodes = {}
  /\ calls = [c \in 1..MaxCalls |-> NoCall]
  /\ task = <<>>
  /\ cacheFrom = {}
  /\ events = 0
  /\ unanswered = 0

InitHist ==
  /\ infos = <<>>
  /\ base = [n \in Nodes |-> NoText]
  /\ restoredFrom = [n \in Nodes |-> NoText]
  /\ lastOp = NoOp

---------------------------------------------------------------------------
(* DomTranslator on its own: extraction passes over the page, calls of     *)
(* applyTranslations with the extracted list and translations of any       *)
(* content, restoreOriginal, and the page removing text nodes.  The        *)
(* dynamic elements stay out of the document here.                         *)

\* translated texts a backend or the cache may hand over: Korean, mixed
DomWords == {<<"ga">>, <<"a", "ga">>}

\* the TranslatedText values offered for a node whose snapshot is text
Offers(text) ==
  {[original |-> text, translated |-> w] : w \in DomWords \cup {text}}
    \cup {[original |-> <<"ga">>, translated |-> text]}

\* the lists of TranslatedText of length n offered for the first n nodes
RECURSIVE OfferLists(_, _)
OfferLists(nodes, n) ==
  IF n <= 0 THEN {<<>>}
  ELSE {Append(l, t) : l \in OfferLists(nodes, n - 1),
                       t \in Offers(nodes[n].originalText)}

DomExtract(root) ==
  /\ extractTextNodes(root, content, parentNode, attached) # <<>>
  /\ infos' = extractTextNodes(root, content, parentNode, attached)
  /\ lastOp' = [op |-> "extract"]
  /\ UNCHANGED <<pageVars, domVars, cacheVars, base, restoredFrom, orchVars>>

DomApply(translatedTexts) ==
  /\ infos # <<>>
  /\ LET d == applyTranslations(Dom, infos, translatedTexts)
     IN  /\ Len(d.translations) <= MaxLog
         /\ SetDom(d) /\ TrackApply(d)
  /\ lastOp' = [op |-> "apply",
                numNodes |-> Len(infos),
                numTexts |-> Len(translatedTexts),
                allSame |-> \A i \in 1..Len(translatedTexts) :
                              translatedTexts[i].original = translatedTexts[i].translated,
                countBefore |-> Len(translations),
                flagBefore |-> isTranslated]
  /\ UNCHANGED <<parentNode, attached, cacheVars, infos, orchVars>>

DomRestore ==
  /\ SetDom(restoreOriginal(Dom, parentNode))
  /\ TrackRestore
  /\ lastOp' = IF lastOp.op = "restore" THEN [lastOp EXCEPT !.again = TRUE]
                ELSE [op |-> "restore", again |-> FALSE,
                      count |-> Len(translations),
                      skipped |-> Cardinality({i \in 1..Len(translations) :
                                                ~parentNode[translations[i].node]})]
  /\ UNCHANGED <<parentNode, attached, cacheVars, infos, orchVars>>

\* the page removes a text node from its parent
RemoveNode(n) ==
  /\ parentNode[n]
  /\ parentNode' = [parentNode EXCEPT ![n] = FALSE]
  /\ base' = [base EXCEPT ![n] = NoText]
  /\ restoredFrom' = [restoredFrom EXCEPT ![n] = NoText]
  /\ lastOp' = [op |-> "remove"]
  /\ UNCHANGED <<content, attached, domVars, cacheVars, infos, orchVars>>

NextDom ==
  \/ \E root \in {BodyRoot} \cup {ElemRoot(e) : e \in Elems}
                 \cup {ShadowRootOf(e) : e \in Elems} : DomExtract(root)
  \/ \E l \in OfferLists(infos, Len(infos)) : DomApply(l)
  \/ \E l \in OfferLists(infos, Len(infos) - 1) : DomApply(l)
  \/ DomRestore
  \/ \E n \in Nodes : RemoveNode(n)

InitDom == InitPage /\ InitDomTranslator /\ InitCache /\ InitHist /\ InitOrch

SpecDom == InitDom /\ [][NextDom]_vars

---------------------------------------------------------------------------
(* TranslationCache on its own: set, get and getMultiple with any          *)
(* arguments, and the clock advancing.                                     *)

CacheTexts == {<<"a", "b">>, <<"b", "a">>}
CacheWords == {<<"ga">>, <<>>}
CachePairs == {<<"en", "ko">>, <<"ko", "en">>}

\* the age of key's entry at time, -1 when the key is absent
AgeOf(c, time, key) ==
  IF HasKey(c, key) THEN time - c[IndexOfKey(c, key)].timestamp ELSE -1

CacheSet(text, translated, sourceLang, targetLang) ==
  /\ cache' = set(cache, now, text, translated, sourceLang, targetLang)
  /\ lastOp' = [op |-> "set", text |-> text, translated |-> translated,
                sourceLang |-> sourceLang, targetLang |-> targetLang,
                hadKey |-> HasKey(cache, generateKey(text, sourceLang, targetLang)),
                sizeBefore |-> Len(cache)]
  /\ UNCHANGED <<pageVars, domVars, now, infos, base, restoredFrom, orchVars>>

CacheGet(text, sourceLang, targetLang) ==
  LET g == get(cache, now, text, sourceLang, targetLang)
  IN  /\ cache' = g.cache
      /\ lastOp' = [op |-> "get", text |-> text, result |-> g.result,
                    sourceLang |-> sourceLang, targetLang |-> targetLang,
                    hadKey |-> HasKey(cache, generateKey(text, sourceLang, targetLang)),
                    age |-> AgeOf(cache, now, generateKey(text, sourceLang, targetLang))]
      /\ UNCHANGED <<pageVars, domVars, now, infos, base, restoredFrom, orchVars>>

CacheGetMultiple(texts, sourceLang, targetLang) ==
  LET r == getMultiple(cache, now, texts, sourceLang, targetLang)
  IN  /\ cache' = r.cache
      /\ lastOp' = [op |-> "getMultiple", texts |-> texts,
                    cached |-> r.cached, uncached |-> r.uncached,
                    sourceLang |-> sourceLang, targetLang |-> targetLang]
      /\ UNCHANGED <<pageVars, domVars, now, infos, base, restoredFrom, orchVars>>

Tick ==
  /\ now < MaxTime
  /\ now' = now + 1
  /\ UNCHANGED <<pageVars, domVars, cache, histVars, orchVars>>

CacheTextLists ==
  {<<>>, <<<<"a", "b">>>>,
   <<<<"a", "b">>, <<"b", "a">>>>, <<<<"b", "a">>, <<"b", "a">>>>}

NextCache ==
  \/ \E text \in CacheTexts, w \in CacheWords, p \in CachePairs :
       CacheSet(text, w, p[1], p[2])
  \/ \E text \in CacheTexts, p \in CachePairs : CacheGet(text, p[1], p[2])
  \/ \E texts \in CacheTextLists, p \in CachePairs :
       CacheGetMultiple(texts, p[1], p[2])
  \/ Tick

InitCacheSpec == InitPage /\ InitDomTranslator /\ InitCache /\ InitHist /\ InitOrch

SpecCache == InitCacheSpec /\ [][NextCache]_vars

---------------------------------------------------------------------------
(* PlainlyContentScript.  A handler is a function from the state record    *)
(* S to the state record; ok turns FALSE when a handler would exceed a     *)
(* bound of the model, and a step is taken only when its result is ok.     *)

Cur ==
  [content |-> content, translations |-> translations,
   isTranslated |-> isTranslated, cache |-> cache, initPc |-> initPc,
   isEnabled |-> isEnabled, settings |-> settings, observer |-> observer,
   shadowObservers |-> shadowObservers, debounceTimer |-> debounceTimer,
   pendingNodes |-> pendingNodes, oldTimers |-> oldTimers,
   translatingNodes |-> translatingNodes, calls |-> calls, task |-> task,
   cacheFrom |-> cacheFrom, events |-> events, unanswered |-> unanswered,
   ok |-> TRUE]

Install(S) ==
  /\ S.ok
  /\ content' = S.content
  /\ translations' = S.translations
  /\ isTranslated' = S.isTranslated
  /\ cache' = S.cache
  /\ initPc' = S.initPc
  /\ isEnabled' = S.isEnabled
  /\ settings' = S.settings
  /\ observer' = S.observer
  /\ shadowObservers' = S.shadowObservers
  /\ debounceTimer' = S.debounceTimer
  /\ pendingNodes' = S.pendingNodes
  /\ oldTimers' = S.oldTimers
  /\ translatingNodes' = S.translatingNodes
  /\ calls' = S.calls
  /\ task' = S.task
  /\ events' = S.events
  /\ unanswered' = S.unanswered
  /\ cacheFrom' = {r \in S.cacheFrom : HasKey(S.cache, r.key)}
  /\ UNCHANGED <<now, histVars>>

DomOf(S) ==
  [content |-> S.content, translations |-> S.translations,
   isTranslated |-> S.isTranslated]

WithDom(S, d) ==
  [S EXCEPT !.content = d.content, !.translations = d.translations,
            !.isTranslated = d.isTranslated]

ElemSeq == [i \in 1..NumElems |-> i]
Min(a, b) == IF a < b THEN a ELSE b

Frame(k, c, b, roots, results) ==
  [k |-> k, c |-> c, b |-> b, roots |-> roots, results |-> results]

\* observeDomChanges: the old observers are disconnected, a new closure
\* (handleMutations with its own debounceTimer and pendingNodes) observes
\* the body and the shadow roots the document holds; a timer of the old
\* closure stays pending.
observeDomChanges(S) ==
  LET Hosted(e) == attached[e] /\ HasShadow(e)
      hosts == SelectSeq(ElemSeq, Hosted)
  IN  [S EXCEPT
         !.oldTimers = IF S.debounceTimer THEN Append(@, S.pendingNodes) ELSE @,
         !.debounceTimer = FALSE,
         !.pendingNodes = <<>>,
         !.observer = TRUE,
         !.shadowObservers = hosts,
         !.ok = /\ S.ok
                /\ (S.debounceTimer => Len(S.oldTimers) < MaxOldTimers)
                /\ Len(hosts) <= MaxShadowObservers]

\* disable
disable(S) ==
  IF ~S.isEnabled THEN S
  ELSE WithDom([S EXCEPT !.isEnabled = FALSE,
                         !.observer = FALSE,
                         !.shadowObservers = <<>>],
               restoreOriginal(DomOf(S), parentNode))

\* handleMutations for one record whose addedNodes is the element e
handleMutations(S, e) ==
  IF ~S.isEnabled THEN S
  ELSE
    LET pend == S.pendingNodes \o <<ElemRoot(e)>>
                  \o (IF HasShadow(e) THEN <<ShadowRootOf(e)>> ELSE <<>>)
        obs == IF HasShadow(e) THEN Append(S.shadowObservers, e)
               ELSE S.shadowObservers
    IN  [S EXCEPT !.pendingNodes = pend,
                  !.shadowObservers = obs,
                  !.debounceTimer = TRUE,
                  !.ok = /\ S.ok
                         /\ Len(obs) <= MaxShadowObservers
                         /\ Len(pend) <= MaxPending]

\* what the caller of enable() does once enable() has returned: init goes
\* on to register the listeners, the TOGGLE_TRANSLATION handler answers
CallerTail(S, cont) ==
  IF cont = "init" THEN [S EXCEPT !.initPc = "done"]
  ELSE IF cont = "toggle" THEN [S EXCEPT !.unanswered = @ - 1]
  ELSE S

\* what follows a translateNodesParallel call that returned: enable() goes
\* on to observeDomChanges and returns to its caller; a flush goes on
Continue(S, cont) ==
  IF cont \in {"init", "toggle"} THEN CallerTail(observeDomChanges(S), cont)
  ELSE S

\* what follows a translateNodesParallel call that threw: enable() and its
\* caller throw too
Abandon(S, cont) ==
  IF cont = "init" THEN [S EXCEPT !.initPc = "failed"] ELSE S

NodesOfCall(call) == {call.nodes[i].node : i \in 1..Len(call.nodes)}

\* the finally block of translateNodesParallel
Finally(S, c) ==
  [S EXCEPT !.translatingNodes = @ \ NodesOfCall(S.calls[c])]

Outstanding(call) == {j \in 1..Len(call.status) : call.status[j] = "sent"}

\* the call c returns: finally, then the awaiting code goes on
CompleteCall(S, c) ==
  Continue([Finally(S, c) EXCEPT !.calls[c] = NoCall], S.calls[c].cont)

\* the for loop over the waves, entered at batch i: translateBatch sends
\* one TRANSLATE_TEXT message per batch of the wave, with the settings
\* of that moment in the payload
sendWave(S, c, i) ==
  LET last == Min(i + MAX_CONCURRENT_REQUESTS - 1, Len(S.calls[c].batches))
  IN  [S EXCEPT
         !.calls[c].wave = i,
         !.calls[c].status = [j \in 1..Len(@) |->
                                IF j \in i..last THEN "sent" ELSE @[j]],
         !.calls[c].payload = [j \in 1..Len(@) |->
                                IF j \in i..last THEN S.settings ELSE @[j]]]

\* the for loop building the batches, with slices that run one item over
BatchesOfOverlapping(uncached, newNodes, size) ==
  LET n == (Len(uncached) + size - 1) \div size
  IN  [j \in 1..n |->
         LET batchIndices ==
               SubSeq(uncached, (j - 1) * size + 1,
                      Min(j * size + 1, Len(uncached)))
         IN  [indices |-> batchIndices,
              nodes |-> [k \in 1..Len(batchIndices) |->
                           newNodes[batchIndices[k].index + 1]]]]

\* the for loop building the batches, "i += MAX_TEXTS_PER_REQUEST" with
\* the constant's value size: batch j is uncached.slice(i, i + size) for
\* i = (j - 1) * size, with the nodes newNodes[u.index] of its items
BatchesOf(uncached, newNodes, size) ==
  LET n == (Len(uncached) + size - 1) \div size
  IN  [j \in 1..n |->
         LET batchIndices ==
               SubSeq(uncached, (j - 1) * size + 1,
                      Min(j * size, Len(uncached)))
         IN  [indices |-> batchIndices,
              nodes |-> [k \in 1..Len(batchIndices) |->
                           newNodes[batchIndices[k].index + 1]]]]

\* Batches without the batch of the last slice
BatchesWithoutLast(uncached, newNodes) ==
  LET n == (Len(uncached) + MAX_TEXTS_PER_REQUEST - 1) \div MAX_TEXTS_PER_REQUEST
  IN  [j \in 1..(n - 1) |->
         LET batchIndices ==
               SubSeq(uncached, (j - 1) * MAX_TEXTS_PER_REQUEST + 1,
                      Min(j * MAX_TEXTS_PER_REQUEST, Len(uncached)))
         IN  [indices |-> batchIndices,
              nodes |-> [k \in 1..Len(batchIndices) |->
                           newNodes[batchIndices[k].index + 1]]]]

\* the batches built from uncached: slices of MAX_TEXTS_PER_REQUEST items,
\* each with the nodes of its items
Batches(uncached, newNodes) ==
  BatchesOf(uncached, newNodes, MAX_TEXTS_PER_REQUEST)

\* translateNodesParallel from "if (uncached.length > 0)" to the first await
startBatches(S, c) ==
  LET call == S.calls[c]
      batches == Batches(call.uncached, call.nodes)
  IN  IF Len(call.uncached) = 0 THEN CompleteCall(S, c)
      ELSE sendWave(
             [S EXCEPT !.calls[c].batches = batches,
                       !.calls[c].status = [j \in 1..Len(batches) |-> "unsent"],
                       !.calls[c].payload = [j \in 1..Len(batches) |-> NoPayload]],
             c, 1)

\* "if (this.isEnabled) domTranslator.applyTranslations(cachedNodes, ...)"
applyCached(S, nodes, results) ==
  IF S.isEnabled
  THEN WithDom(S, applyTranslations(DomOf(S), nodes, results))
  ELSE S

\* translateNodesParallel up to the cache lookup and the cached hits; the
\* rest of the call is left for the next step of the handler
translateNodesParallel(S, textNodes, cont) ==
  LET Fresh(n) == /\ n.node \notin S.translatingNodes
                  /\ isSourceLanguage(n.originalText, S.settings.sourceLang)
      newNodes == SelectSeq(textNodes, Fresh)
  IN  IF Len(newNodes) = 0 THEN Continue(S, cont)
      ELSE
        LET texts == [i \in 1..Len(newNodes) |-> newNodes[i].originalText]
            r == getMultiple(S.cache, now, texts,
                             S.settings.sourceLang, S.settings.targetLang)
            cachedNodes == [i \in 1..Len(r.cached) |->
                              newNodes[r.cached[i].index + 1]]
            cachedResults == [i \in 1..Len(r.cached) |->
                                [original |-> texts[r.cached[i].index + 1],
                                 translated |-> r.cached[i].translated]]
            S1 == [S EXCEPT !.translatingNodes =
                              @ \cup {newNodes[i].node : i \in 1..Len(newNodes)},
                            !.cache = r.cache]
            S2 == IF Len(r.cached) > 0
                  THEN applyCached(S1, cachedNodes, cachedResults)
                  ELSE S1
            free == {c \in 1..MaxCalls : ~S.calls[c].active}
        IN  IF free = {} THEN [S EXCEPT !.ok = FALSE]
            ELSE
              LET c == CHOOSE x \in free : \A y \in free : x <= y
              IN  [S2 EXCEPT
                     !.calls[c] = [NoCall EXCEPT !.active = TRUE,
                                                 !.cont = cont,
                                                 !.nodes = newNodes,
                                                 !.cached = r.cached,
                                                 !.uncached = r.uncached],
                     !.task = <<Frame("send", c, 0, <<>>, <<>>)>> \o @]

\* translateVisibleContent
translateVisibleContent(S, cont) ==
  LET textNodes == extractTextNodes(BodyRoot, S.content, parentNode, attached)
  IN  IF Len(textNodes) = 0 THEN Continue(S, cont)
      ELSE translateNodesParallel(S, sortByViewport(textNodes), cont)

\* enable
enable(S, cont) ==
  IF S.isEnabled THEN CallerTail(S, cont)
  ELSE translateVisibleContent([S EXCEPT !.isEnabled = TRUE], cont)

\* toggle
toggle(S) ==
  IF S.isEnabled THEN CallerTail(disable(S), "toggle") ELSE enable(S, "toggle")

\* the cache writes keyed by the text of the request instead of the
\* original the result reports
RECURSIVE CacheResultsByRequestText(_, _, _, _, _)
CacheResultsByRequestText(S, c, j, results, i) ==
  IF i > Len(results) THEN S
  ELSE CacheResultsByRequestText(
         [S EXCEPT !.cache = set(@, now, S.calls[c].batches[j].indices[i].text,
                                 results[i].translated,
                                 S.settings.sourceLang, S.settings.targetLang)],
         c, j, results, i + 1)

\* translateBatch after a success response, first half: every result is
\* written to the cache under its reported original and the settings of
\* this moment (cacheFrom remembers the language pair the request carried)
RECURSIVE CacheResultsLoop(_, _, _, _, _)
CacheResultsLoop(S, c, j, results, i) ==
  IF i > Len(results) THEN S
  ELSE
    LET result == results[i]
        pay == S.calls[c].payload[j]
        key == generateKey(result.original, S.settings.sourceLang,
                           S.settings.targetLang)
    IN  CacheResultsLoop(
          [S EXCEPT
             !.cache = set(@, now, result.original, result.translated,
                           S.settings.sourceLang, S.settings.targetLang),
             !.cacheFrom = {r \in @ : r.key # key}
                             \cup {[key |-> key, sourceLang |-> pay.sourceLang,
                                    targetLang |-> pay.targetLang]}],
          c, j, results, i + 1)

cacheResults(S, c, j, results) == CacheResultsLoop(S, c, j, results, 1)

\* the results applied without looking at isEnabled
applyBatchAlways(S, nodes, results) ==
  WithDom(S, applyTranslations(DomOf(S), nodes, results))

\* translateBatch after a success response, second half
applyBatch(S, nodes, results) ==
  IF S.isEnabled
  THEN WithDom(S, applyTranslations(DomOf(S), nodes, results))
  ELSE S

\* a failed batch ending the call once its wave is over
settleBatchStopping(S, c, j, outcome) ==
  LET S1 == [S EXCEPT !.calls[c].status[j] = outcome]
      call == S1.calls[c]
      next == call.wave + MAX_CONCURRENT_REQUESTS
  IN  IF call.settled
      THEN IF Outstanding(call) # {} THEN S1 ELSE [S1 EXCEPT !.calls[c] = NoCall]
      ELSE IF Outstanding(call) # {} THEN S1
      ELSE IF next <= Len(call.batches) /\ outcome # "failed"
      THEN sendWave(S1, c, next)
      ELSE CompleteCall(S1, c)

\* the promise of batch j of call c is fulfilled: when it was the last of
\* its wave, Promise.all is fulfilled and the loop starts the next wave or
\* the call returns.  A call that has thrown only waits for its requests.
settleBatch(S, c, j, outcome) ==
  LET S1 == [S EXCEPT !.calls[c].status[j] = outcome]
      call == S1.calls[c]
      next == call.wave + MAX_CONCURRENT_REQUESTS
  IN  IF call.settled
      THEN IF Outstanding(call) # {} THEN S1 ELSE [S1 EXCEPT !.calls[c] = NoCall]
      ELSE IF Outstanding(call) # {} THEN S1
      ELSE IF next <= Len(call.batches) THEN sendWave(S1, c, next)
      ELSE CompleteCall(S1, c)

\* sendMessage of batch j of call c rejects: Promise.all rejects at the
\* first rejection, the finally block runs and the call throws, while the
\* other requests of the wave stay outstanding
rejectBatch(S, c, j) ==
  LET S1 == [S EXCEPT !.calls[c].status[j] = "rejected"]
      S2 == IF S1.calls[c].settled THEN S1
            ELSE Abandon([Finally(S1, c) EXCEPT !.calls[c].settled = TRUE],
                         S1.calls[c].cont)
  IN  IF Outstanding(S2.calls[c]) # {} THEN S2
      ELSE [S2 EXCEPT !.calls[c] = NoCall]

\* the translated text the backend produces for a target language
Word(targetLang) == IF targetLang = "ko" THEN <<"ga">> ELSE <<"a", "b">>

\* the data of a success response to a request for texts: a translation
\* of every text, the texts echoed untranslated, or translations reported
\* under another original
BackendData(texts, targetLang) ==
  {[i \in 1..Len(texts) |-> [original |-> texts[i], translated |-> Word(targetLang)]],
   [i \in 1..Len(texts) |-> [original |-> texts[i], translated |-> texts[i]]],
   [i \in 1..Len(texts) |-> [original |-> <<"b", "b">>, translated |-> Word(targetLang)]]}

BatchTexts(batch) == [k \in 1..Len(batch.indices) |-> batch.indices[k].text]

LangPairs == {[sourceLang |-> "en", targetLang |-> "ko"],
              [sourceLang |-> "ko", targetLang |-> "en"]}

---------------------------------------------------------------------------
(* The macrotasks *)

Idle == task = <<>>

\* a new macrotask may start: the handler before it has run to completion
Macrotask == Idle /\ events < MaxEvents
Begin == [Cur EXCEPT !.events = @ + 1]

\* init(): the stored settings arrive; with autoTranslate, enable() runs
\* before the listeners are registered
InitSettings(auto, pair) ==
  /\ Macrotask /\ initPc = "settings"
  /\ LET S0 == [Begin EXCEPT !.settings = pair]
     IN  Install(IF auto THEN enable([S0 EXCEPT !.initPc = "enabling"], "init")
                 ELSE [S0 EXCEPT !.initPc = "done"])
  /\ UNCHANGED <<parentNode, attached>>

\* a TOGGLE_TRANSLATION message
ToggleMessage ==
  /\ Macrotask /\ initPc = "done"
  /\ Install(toggle([Begin EXCEPT !.unanswered = @ + 1]))
  /\ UNCHANGED <<parentNode, attached>>

\* a storage change notification with new settings
SettingsChanged(pair) ==
  /\ Macrotask /\ initPc = "done"
  /\ pair # settings
  /\ Install([Begin EXCEPT !.settings = pair])
  /\ UNCHANGED <<parentNode, attached>>

\* the page inserts the element e; a connected observer calls handleMutations
AddElement(e) ==
  /\ Macrotask /\ ~attached[e]
  /\ attached' = [attached EXCEPT ![e] = TRUE]
  /\ Install(IF observer THEN handleMutations(Begin, e) ELSE Begin)
  /\ UNCHANGED parentNode

\* the page removes the element e (handleMutations ignores removed nodes)
RemoveElement(e) ==
  /\ Macrotask /\ attached[e]
  /\ attached' = [attached EXCEPT ![e] = FALSE]
  /\ Install(Begin)
  /\ UNCHANGED parentNode

\* the debounce timer of the current closure fires
TimerFire ==
  /\ Macrotask /\ debounceTimer
  /\ Install([Begin EXCEPT !.debounceTimer = FALSE,
                           !.pendingNodes = <<>>,
                           !.task = <<Frame("flush", 0, 0, pendingNodes, <<>>)>>])
  /\ UNCHANGED <<parentNode, attached>>

\* the debounce timer of a superseded closure fires
OldTimerFire(i) ==
  /\ Macrotask /\ i \in 1..Len(oldTimers)
  /\ Install([Begin EXCEPT !.oldTimers = RemoveAt(@, i),
                           !.task = <<Frame("flush", 0, 0, oldTimers[i], <<>>)>>])
  /\ UNCHANGED <<parentNode, attached>>

\* the backend answers the request of batch j of call c with success
RespondSuccess(c, j, data) ==
  /\ Macrotask /\ calls[c].active /\ j \in Outstanding(calls[c])
  /\ Install([cacheResults(Begin, c, j, data) EXCEPT
                !.task = <<Frame("apply", c, j, <<>>, data)>>])
  /\ UNCHANGED <<parentNode, attached>>

\* the backend answers with a non-success response
RespondFailure(c, j) ==
  /\ Macrotask /\ calls[c].active /\ j \in Outstanding(calls[c])
  /\ Install(settleBatch(Begin, c, j, "failed"))
  /\ UNCHANGED <<parentNode, attached>>

\* chrome.runtime.sendMessage rejects
RespondReject(c, j) ==
  /\ Macrotask /\ calls[c].active /\ j \in Outstanding(calls[c])
  /\ Install(rejectBatch(Begin, c, j))
  /\ UNCHANGED <<parentNode, attached>>

(* The steps of the running handler *)

StepSend ==
  /\ ~Idle /\ Head(task).k = "send"
  /\ Install(startBatches([Cur EXCEPT !.task = Tail(@)], Head(task).c))
  /\ UNCHANGED <<parentNode, attached>>

StepApply ==
  /\ ~Idle /\ Head(task).k = "apply"
  /\ LET f == Head(task)
         batch == calls[f.c].batches[f.b]
     IN  Install(settleBatch(
                   applyBatch([Cur EXCEPT !.task = Tail(@)], batch.nodes, f.results),
                   f.c, f.b, "done"))
  /\ UNCHANGED <<parentNode, attached>>

\* one turn of the forEach of the flush: extract from the buffered root and
\* call translateNodesParallel
StepFlush ==
  /\ ~Idle /\ Head(task).k = "flush"
  /\ LET f == Head(task)
         rest == Tail(f.roots)
         S0 == [Cur EXCEPT
                  !.task = (IF rest = <<>> THEN <<>>
                            ELSE <<Frame("flush", 0, 0, rest, <<>>)>>) \o Tail(@)]
         textNodes == extractTextNodes(Head(f.roots), content, parentNode, attached)
     IN  Install(IF Len(textNodes) > 0
                 THEN translateNodesParallel(S0, textNodes, "flush")
                 ELSE S0)
  /\ UNCHANGED <<parentNode, attached>>

Next ==
  \/ \E auto \in BOOLEAN, pair \in LangPairs : InitSettings(auto, pair)
  \/ ToggleMessage
  \/ \E pair \in LangPairs : SettingsChanged(pair)
  \/ \E e \in Elems : AddElement(e)
  \/ \E e \in Elems : RemoveElement(e)
  \/ TimerFire
  \/ \E i \in 1..MaxOldTimers : OldTimerFire(i)
  \/ \E c \in 1..MaxCalls : \E j \in Outstanding(calls[c]) :
       \E data \in BackendData(BatchTexts(calls[c].batches[j]),
                               calls[c].payload[j].targetLang) :
         RespondSuccess(c, j, data)
  \/ \E c \in 1..MaxCalls, j \in 1..NumNodes : RespondFailure(c, j)
  \/ \E c \in 1..MaxCalls, j \in 1..NumNodes : RespondReject(c, j)
  \/ StepSend
  \/ StepApply
  \/ StepFlush

Init == InitPage /\ InitDomTranslator /\ InitCache /\ InitHist /\ InitOrch

Spec == Init /\ [][Next]_vars

---------------------------------------------------------------------------
(* The end-to-end scenario: a page that already holds some of the dynamic  *)
(* elements, the stored pair en -> ko, one enable() (by autoTranslate or   *)
(* by the first TOGGLE_TRANSLATION), and a backend that answers every      *)
(* request with a translation of every text.  The clock runs freely.       *)

E2EPair == [sourceLang |-> "en", targetLang |-> "ko"]

\* the response of a backend that translates every text of the request
Translated(texts, targetLang) ==
  [i \in 1..Len(texts) |-> [original |-> texts[i], translated |-> Word(targetLang)]]

InitE2EPage ==
  /\ content = [n \in Nodes |-> InitText(n)]
  /\ parentNode = [n \in Nodes |-> TRUE]
  /\ attached \in [Elems -> BOOLEAN]

\* the TOGGLE_TRANSLATION message that enables the orchestrator
EnableMessage == ~isEnabled /\ ToggleMessage

RespondTranslated(c, j) ==
  RespondSuccess(c, j, Translated(BatchTexts(calls[c].batches[j]),
                                  calls[c].payload[j].targetLang))

NextE2E ==
  \/ \E auto \in BOOLEAN : InitSettings(auto, E2EPair)
  \/ EnableMessage
  \/ \E c \in 1..MaxCalls : \E j \in Outstanding(calls[c]) : RespondTranslated(c, j)
  \/ StepSend
  \/ StepApply
  \/ Tick

InitE2E == InitE2EPage /\ InitDomTranslator /\ InitCache /\ InitHist /\ InitOrch

SpecE2E == InitE2E /\ [][NextE2E]_vars

---------------------------------------------------------------------------
(* TextExtractor's language classification on its own: detectLanguage and  *)
(* isSourceLanguage applied once to a text made of k Hangul syllables, e   *)
(* Latin letters and d other characters, in one of several arrangements.   *)

HangulRun(k) == [i \in 1..k |-> IF i % 2 = 1 THEN "ga" ELSE "na"]
LatinRun(e) == [i \in 1..e |-> IF i % 2 = 1 THEN "a" ELSE "b"]
OtherRun(d) == [i \in 1..d |-> IF i % 2 = 1 THEN "1" ELSE " "]

\* a text with the two kinds of letters alternating as long as both last
RECURSIVE Interleave(_, _)
Interleave(s, t) ==
  IF s = <<>> THEN t
  ELSE IF t = <<>> THEN s
  ELSE <<Head(s), Head(t)>> \o Interleave(Tail(s), Tail(t))

Shapes == {"hangulFirst", "latinFirst", "interleaved"}

LangText(k, e, d, shape) ==
  CASE shape = "hangulFirst" -> HangulRun(k) \o OtherRun(d) \o LatinRun(e)
    [] shape = "latinFirst"  -> LatinRun(e) \o HangulRun(k) \o OtherRun(d)
    [] OTHER                 -> OtherRun(d) \o Interleave(HangulRun(k), LatinRun(e))

\* the arguments of a call: a text and a source language
LangInputs ==
  {[op |-> "input", korean |-> k, english |-> e,
    text |-> LangText(k, e, d, shape), sourceLang |-> sourceLang] :
     k \in 0..MaxLetters, e \in 0..MaxLetters, d \in 0..MaxOther,
     shape \in Shapes, sourceLang \in Langs}

\* isSourceLanguage(text, sourceLang), which calls detectLanguage(text)
Classify ==
  /\ lastOp.op = "input"
  /\ lastOp' = [op |-> "classify", korean |-> lastOp.korean,
                english |-> lastOp.english,
                text |-> lastOp.text, sourceLang |-> lastOp.sourceLang,
                detected |-> detectLanguage(lastOp.text),
                isSource |-> isSourceLanguage(lastOp.text, lastOp.sourceLang)]
  /\ UNCHANGED <<pageVars, domVars, cacheVars, infos, base, restoredFrom,
                 orchVars>>

NextLang == Classify

InitLang ==
  /\ InitPage /\ InitDomTranslator /\ InitCache /\ InitOrch
  /\ infos = <<>>
  /\ base = [n \in Nodes |-> NoText]
  /\ restoredFrom = [n \in Nodes |-> NoText]
  /\ lastOp \in LangInputs

SpecLang == InitLang /\ [][NextLang]_vars

---------------------------------------------------------------------------
(* The batch construction of translateNodesParallel on its own: the list   *)
(* newNodes, the misses getMultiple reported for it, and the value of      *)
(* MAX_TEXTS_PER_REQUEST, which the sources do not give.                   *)

ChunkTexts == {<<"a", "b">>, <<"b", "a">>}

\* the lists newNodes: distinct text nodes with texts of ChunkTexts
ChunkNodeLists ==
  UNION {{[i \in 1..n |-> [node |-> i, originalText |-> t[i]]] :
            t \in [1..n -> ChunkTexts]} : n \in 0..MaxChunkNodes}

\* uncached as getMultiple builds it: the missing positions in index
\* order, each with its zero-based index and its text
MissList(newNodes, missing) ==
  LET Missing(i) == i \in missing
      positions == SelectSeq([i \in 1..Len(newNodes) |-> i], Missing)
  IN  [k \in 1..Len(positions) |->
         [index |-> positions[k] - 1, text |-> newNodes[positions[k]].originalText]]

ChunkInputs ==
  UNION {{[op |-> "misses", newNodes |-> nodes,
           uncached |-> MissList(nodes, missing), size |-> size] :
            missing \in SUBSET (1..Len(nodes)), size \in 1..MaxChunkSize} :
         nodes \in ChunkNodeLists}

\* the for loop of lines 221-225
BuildBatches ==
  /\ lastOp.op = "misses"
  /\ lastOp' = [op |-> "batches", newNodes |-> lastOp.newNodes,
                uncached |-> lastOp.uncached, size |-> lastOp.size,
                batches |-> BatchesOf(lastOp.uncached, lastOp.newNodes, lastOp.size)]
  /\ UNCHANGED <<pageVars, domVars, cacheVars, infos, base, restoredFrom,
                 orchVars>>

NextChunk == BuildBatches

InitChunk ==
  /\ InitPage /\ InitDomTranslator /\ InitCache /\ InitOrch
  /\ infos = <<>>
  /\ base = [n \in Nodes |-> NoText]
  /\ restoredFrom = [n \in Nodes |-> NoText]
  /\ lastOp \in ChunkInputs

SpecChunk == InitChunk /\ [][NextChunk]_vars

---------------------------------------------------------------------------
(* Statements about DomTranslator, under SpecDom *)

\* C1 (as claimed): round trip.  Every text node that stayed attached and
\* was substituted one or more times by applyTranslations has, after
\* restoreOriginal, exactly the text content it had before the first
\* substitution, leading and trailing white space included.
C1_RoundTrip ==
  \A n \in Nodes : restoredFrom[n] # NoText => content[n] = restoredFrom[n]

\* C12 (as claimed): no-op suppression.  applyTranslations called on a
\* translator with no records, with lists of equal length in which every
\* translated equals its original, leaves zero records and isTranslated
\* false.
C12_NoOpSuppression ==
  (/\ lastOp.op = "apply"
   /\ lastOp.numNodes = lastOp.numTexts
   /\ lastOp.allSame
   /\ lastOp.countBefore = 0
   /\ ~lastOp.flagBefore)
  => (getStatus(Dom).count = 0 /\ ~getStatus(Dom).isTranslated)

\* C13 (as claimed): undo-log invariant.  Every record of the log has an
\* original different from its translated.
C13_NoNoOpRecord ==
  \A i \in 1..Len(translations) :
    translations[i].original # translations[i].translated

\* C14: malformed batch.  applyTranslations called with lists of different
\* lengths changes no node's text, appends no record and keeps
\* isTranslated and count.
C14_MalformedBatch ==
  [][(lastOp'.op = "apply" /\ lastOp'.numNodes # lastOp'.numTexts) =>
       /\ content' = content
       /\ translations' = translations
       /\ isTranslated' = isTranslated
       /\ getStatus([content |-> content', translations |-> translations',
                     isTranslated |-> isTranslated']) = getStatus(Dom)
    ]_vars

\* C14 witness: applyTranslations has just been called with lists of
\* different lengths on a translator that holds records
C14_Witness ==
  /\ lastOp.op = "apply"
  /\ lastOp.numNodes # lastOp.numTexts
  /\ lastOp.countBefore > 0
  /\ lastOp.flagBefore
  /\ Len(translations) = lastOp.countBefore

\* C15: idempotence of restore.  In every reachable state a second
\* restoreOriginal leaves what the first one produced, and a
\* restoreOriginal performed right after one changes no node's text, nor
\* the log, nor isTranslated.
C15_RestoreIdempotent ==
  [][/\ restoreOriginal(restoreOriginal(Dom, parentNode), parentNode)
          = restoreOriginal(Dom, parentNode)
     /\ (lastOp.op = "restore" /\ lastOp'.op = "restore") =>
          /\ content' = content
          /\ translations' = translations
          /\ isTranslated' = isTranslated
    ]_vars

\* C15 witness: restoreOriginal has been called twice in succession, the
\* first call having undone records
C15_Witness ==
  /\ lastOp.op = "restore"
  /\ lastOp.again
  /\ lastOp.count > 0
  /\ translations = <<>> /\ ~isTranslated

---------------------------------------------------------------------------
(* Statements about PlainlyContentScript, under Spec *)

\* C2: while the orchestrator is disabled the DomTranslator holds no
\* active substitution: getStatus reports count 0 and isTranslated false,
\* whatever arrives or fires after disable.
C2_DisabledNoSubstitution ==
  ~isEnabled => (getStatus(Dom).count = 0 /\ ~getStatus(Dom).isTranslated)

\* C2 witness: a success response has arrived while the orchestrator is
\* disabled, and its results, which differ from the originals, are about
\* to go through translateBatch's application step
C2_Witness ==
  /\ ~isEnabled
  /\ task # <<>>
  /\ Head(task).k = "apply"
  /\ \E i \in 1..Len(Head(task).results) :
       Head(task).results[i].original # Head(task).results[i].translated

\* C3 (as claimed): while the orchestrator is disabled no mutation
\* observer is connected, neither the root observer nor a shadow-root one.
C3_DisabledNoObserver ==
  ~isEnabled => (~observer /\ shadowObservers = <<>>)

\* the nodes a call still works on: those of its candidate list until its
\* finally block has run, and those of its requests in flight
InFlightNodes(call) ==
  IF ~call.active THEN {}
  ELSE (IF call.settled THEN {} ELSE NodesOfCall(call))
         \cup UNION {{call.batches[j].nodes[k].node :
                        k \in 1..Len(call.batches[j].nodes)} :
                      j \in Outstanding(call)}

\* C4 (as claimed): no text node is in two translateNodesParallel
\* dispatches that are both in progress.
C4_NoDoubleDispatch ==
  \A c1, c2 \in 1..MaxCalls :
    c1 # c2 => InFlightNodes(calls[c1]) \cap InFlightNodes(calls[c2]) = {}

\* the requests sent and not yet settled, over all calls
OutstandingRequests ==
  {r \in (1..MaxCalls) \X (1..NumNodes) : r[2] \in Outstanding(calls[r[1]])}

\* the requests in flight of a call are those of its current wave, every
\* batch before it has settled and no batch after it has been sent
WavesInOrder(call) ==
  \A j \in 1..Len(call.status) :
    /\ call.status[j] = "sent" =>
         j \in call.wave..(call.wave + MAX_CONCURRENT_REQUESTS - 1)
    /\ j < call.wave => call.status[j] \notin {"sent", "unsent"}
    /\ j >= call.wave + MAX_CONCURRENT_REQUESTS => call.status[j] = "unsent"

\* C5 (as claimed): at most MAX_CONCURRENT_REQUESTS requests are sent and
\* not yet settled, over the initial pass and all flushes, and the waves
\* of a dispatch are sequential.
C5_BoundedConcurrency ==
  /\ Cardinality(OutstandingRequests) <= MAX_CONCURRENT_REQUESTS
  /\ \A c \in 1..MaxCalls : calls[c].active => WavesInOrder(calls[c])

\* the results are in the cache c, under the originals they report and
\* the language pair p
ResultsCached(c, results, p) ==
  \A i \in 1..Len(results) :
    LET key == generateKey(results[i].original, p.sourceLang, p.targetLang)
    IN  HasKey(c, key) /\ EntryOf(c, key).translated = results[i].translated

\* C6: failed-batch isolation.  A non-success response to one batch
\* writes no cache entry and changes no node; the batch is not sent
\* again; the other requests of the call stay in flight, its later waves
\* are still sent, and a success response to another batch of the call is
\* cached and, the orchestrator being enabled, applied.
C6_FailedBatchIsolation ==
  [][\A c \in 1..MaxCalls :
       LET call == calls[c]
           Failed == {j \in 1..Len(call.status) : call.status[j] = "failed"}
           Unsent == {j \in 1..Len(call.status) : call.status[j] = "unsent"}
       IN  /\ \A j \in Outstanding(call) :
                RespondFailure(c, j) =>
                  /\ cache' = cache
                  /\ content' = content
                  /\ translations' = translations
                  /\ \A j2 \in Outstanding(call) \ {j} :
                       calls'[c].active /\ calls'[c].status[j2] = "sent"
                  /\ (~call.settled /\ Unsent # {}) =>
                       /\ calls'[c].active /\ ~calls'[c].settled
                       /\ Outstanding(calls'[c]) # {}
                       /\ calls'[c].batches = call.batches
                       /\ (Outstanding(call) = {j} =>
                             \E j2 \in Unsent : calls'[c].status[j2] = "sent")
           /\ \A j \in Failed :
                ~calls'[c].active \/ calls'[c].status[j] = "failed"
           /\ Failed # {} =>
                /\ \A j \in Outstanding(call) :
                     \A data \in BackendData(BatchTexts(call.batches[j]),
                                             call.payload[j].targetLang) :
                       RespondSuccess(c, j, data) =>
                         ResultsCached(cache', data, settings)
                /\ (StepApply /\ Head(task).c = c /\ isEnabled) =>
                     LET d == applyTranslations(Dom, call.batches[Head(task).b].nodes,
                                                Head(task).results)
                     IN  content' = d.content /\ translations' = d.translations
    ]_vars

\* C6 witness: the first batch of a call has failed, the second, of the
\* same wave, has succeeded and its node shows the translation, and the
\* next wave has been sent
C6_Witness ==
  \E c \in 1..MaxCalls :
    /\ calls[c].active /\ isEnabled
    /\ calls[c].status = <<"failed", "done", "sent">>
    /\ LET n == calls[c].batches[2].nodes[1]
       IN  /\ content[n.node] # InitText(n.node)
           /\ content[n.node] = replaceNodeText(InitText(n.node), Word("ko"))
           /\ HasKey(cache, generateKey(n.originalText, "en", "ko"))
    /\ content[calls[c].batches[1].nodes[1].node]
         = InitText(calls[c].batches[1].nodes[1].node)

\* C7 (as claimed): every cache entry under key (s, t, text) holds a
\* translation returned by a request that was issued with sourceLang = s
\* and targetLang = t.
C7_PairProvenance ==
  \A r \in cacheFrom : r.key[1] = r.sourceLang /\ r.key[3] = r.targetLang

\* the lookup of a dispatch reported text as a miss
IsMiss(c, text, p) ==
  LET r == get(c, now, text, p.sourceLang, p.targetLang).result
  IN  r = NoText \/ Len(r) = 0

\* C8: ordering within a dispatch.  The step that starts a dispatch looks
\* its candidate list up in the cache and sends nothing; every request
\* sent later carries only items the lookup reported as misses; and when
\* a success response has been taken in, every result is in the cache
\* under the original it reports while no node has been touched yet.
C8_Ordering ==
  [][/\ \A c \in 1..MaxCalls :
          /\ (~calls[c].active /\ calls'[c].active) =>
               /\ calls'[c].status = <<>>
               /\ \A k \in 1..Len(calls'[c].uncached) :
                    IsMiss(cache, calls'[c].uncached[k].text, settings')
               /\ \A k \in 1..Len(calls'[c].cached) :
                    /\ ~IsMiss(cache, calls'[c].nodes[calls'[c].cached[k].index + 1].originalText,
                               settings')
                    /\ get(cache, now,
                           calls'[c].nodes[calls'[c].cached[k].index + 1].originalText,
                           settings'.sourceLang, settings'.targetLang).result
                         = calls'[c].cached[k].translated
               /\ Len(calls'[c].cached) + Len(calls'[c].uncached) = Len(calls'[c].nodes)
          /\ \A j \in 1..Len(calls'[c].status) :
               (/\ calls'[c].status[j] = "sent"
                /\ (j > Len(calls[c].status) \/ calls[c].status[j] # "sent")) =>
                  /\ calls[c].active
                  /\ \A k \in 1..Len(calls'[c].batches[j].indices) :
                       \E m \in 1..Len(calls[c].uncached) :
                         /\ calls[c].uncached[m] = calls'[c].batches[j].indices[k]
                         /\ calls[c].nodes[calls[c].uncached[m].index + 1]
                              = calls'[c].batches[j].nodes[k]
     /\ (task' # <<>> /\ Head(task').k = "apply") =>
          /\ content' = content
          /\ translations' = translations
          /\ ResultsCached(cache', Head(task').results, settings')
    ]_vars

\* C8 witness: a dispatch whose lookup found both hits and misses has
\* taken in a success response that reports another original than the
\* text requested, and the result is in the cache under that original
C8_Witness ==
  /\ task # <<>>
  /\ Head(task).k = "apply"
  /\ LET f == Head(task)
         call == calls[f.c]
     IN  /\ call.cached # <<>>
         /\ call.uncached # <<>>
         /\ f.results[1].original # call.batches[f.b].indices[1].text
         /\ HasKey(cache, generateKey(f.results[1].original,
                                      settings.sourceLang, settings.targetLang))

\* C17 (as claimed): the orchestrator state machine.  The state is
\* disabled at the start; enable() moves disabled to enabled and changes
\* nothing when enabled; disable() moves enabled to disabled and changes
\* nothing when disabled; a TOGGLE_TRANSLATION message runs disable() when
\* enabled and enable() when disabled, and when a toggle() that was called
\* in state disabled settles, the state is enabled.
C17_StateMachine ==
  [][/\ (events = 0 => ~isEnabled)
     /\ (isEnabled => enable(Cur, "none") = Cur)
     /\ (~isEnabled => disable(Cur) = Cur)
     /\ ((~isEnabled /\ enable(Cur, "none").ok) => enable(Cur, "none").isEnabled)
     /\ (isEnabled => ~disable(Cur).isEnabled)
     /\ (ToggleMessage => isEnabled' = ~isEnabled)
     /\ (unanswered' < unanswered => isEnabled')
    ]_vars

\* an enable() is awaiting its initial translation pass
EnablePending ==
  \E c \in 1..MaxCalls :
    calls[c].active /\ ~calls[c].settled /\ calls[c].cont \in {"init", "toggle"}

\* C18 (as claimed): once the initial pass of every enable() has settled,
\* an enabled orchestrator observes the document and every
\* TOGGLE_TRANSLATION message has been answered.
C18_EnableReachesObservation ==
  (Idle /\ ~EnablePending) => ((isEnabled => observer) /\ unanswered = 0)

\* the debounce timers pending, of the current and of superseded closures
PendingTimers == (IF debounceTimer THEN 1 ELSE 0) + Len(oldTimers)

\* C19 (as claimed): while enabled, at most one debounce timer is
\* pending, and every buffered node waits for a pending timer.
C19_DebounceCoalescing ==
  isEnabled => (PendingTimers <= 1 /\ (pendingNodes # <<>> => debounceTimer))

\* the step applies the data of a success response: a node of the batch
\* whose text is replaced gets the translation reported for its snapshot
BatchAligned ==
  (task # <<>> /\ Head(task).k = "apply") =>
    LET f == Head(task)
        batch == calls[f.c].batches[f.b]
    IN  \A i \in 1..Len(batch.nodes) :
          content'[batch.nodes[i].node] # content[batch.nodes[i].node] =>
            /\ i <= Len(f.results)
            /\ f.results[i].original = batch.nodes[i].originalText

\* the step applies cache hits: a node whose text is replaced gets the
\* translation the cache holds for its snapshot under the current pair
CacheHitAligned ==
  ((task = <<>> \/ Head(task).k = "flush") /\ isEnabled') =>
    \A n \in Nodes :
      content'[n] # content[n] =>
        LET key == generateKey(Trim(content[n]),
                               settings'.sourceLang, settings'.targetLang)
        IN  /\ HasKey(cache, key)
            /\ content'[n] = replaceNodeText(content[n], EntryOf(cache, key).translated)

\* C22: Node/translation alignment.  Whenever the orchestrator replaces a
\* node's text after a successful batch response or a cache hit, the
\* translation applied to the node is one whose reported original equals
\* the node's snapshot originalText, whatever the backend's data list holds.
C22_Alignment == [][BatchAligned /\ CacheHitAligned]_vars

\* the part of the statement about cache hits alone
C22_CacheHitsOnly == [][CacheHitAligned]_vars

\* the translateNodesParallel call of slot c has not returned or thrown
InProgress(call) == call.active /\ ~call.settled

\* the nodes of the requests of a call that are sent and not yet answered
RequestNodes(call) ==
  UNION {{call.batches[j].nodes[k].node : k \in 1..Len(call.batches[j].nodes)} :
           j \in Outstanding(call)}

\* the step in which a call settles takes its nodes out of the in-flight set
RemovedAtSettle ==
  \A c \in 1..MaxCalls :
    (InProgress(calls[c]) /\ ~InProgress(calls'[c])) =>
      NodesOfCall(calls[c]) \cap translatingNodes' = {}

\* with no call in progress the in-flight set is empty
EmptyWhenQuiet ==
  (\A c \in 1..MaxCalls : ~InProgress(calls'[c])) => translatingNodes' = {}

\* no node leaves the in-flight set while a request carrying it is still
\* outstanding
KeptWhileOutstanding ==
  \A n \in translatingNodes \ translatingNodes' :
    \A c \in 1..MaxCalls : n \notin RequestNodes(calls'[c])

\* C24: In-flight cleanup.  Every node a translateNodesParallel call added
\* to the in-flight set is removed when the call settles, whether its
\* batches succeeded, returned non-success or rejected; whenever no call
\* is in progress the in-flight set is empty; and a node is never removed
\* from the set while a backend request carrying it is still outstanding.
C24_InFlightCleanup ==
  [][RemovedAtSettle /\ EmptyWhenQuiet /\ KeptWhileOutstanding]_vars

\* the first two parts of the statement alone
C24_CleanupAtSettle == [][RemovedAtSettle /\ EmptyWhenQuiet]_vars

---------------------------------------------------------------------------
(* Statements about the whole pipeline, under SpecE2E *)

\* the extraction of the page as it was loaded
E2ENodes ==
  extractTextNodes(BodyRoot, [n \in Nodes |-> InitText(n)], parentNode, attached)

\* the page yields 3 source-language text nodes with distinct texts
E2EThreeDistinct ==
  /\ Len(E2ENodes) = 3
  /\ \A i \in 1..3 : isSourceLanguage(E2ENodes[i].originalText, "en")
  /\ \A i, k \in 1..3 : i # k => E2ENodes[i].originalText # E2ENodes[k].originalText

\* the enable() of the scenario has settled
E2ESettled ==
  /\ isEnabled /\ Idle /\ ~EnablePending
  /\ initPc = "done" /\ unanswered = 0

\* C20: End-to-end.  From the disabled state with an empty cache, the pair
\* en -> ko and a page whose extraction yields 3 source-language text nodes
\* with distinct texts, with a backend that answers every request with
\* translations different from the originals: once enable() has settled,
\* each of the 3 nodes shows the translated text (between its own leading
\* and trailing white space), the cache holds exactly 3 entries, and
\* getStatus() reports isTranslated true and count 3.
C20_EndToEnd ==
  (E2EThreeDistinct /\ E2ESettled) =>
    /\ \A i \in 1..3 :
         /\ content[E2ENodes[i].node]
              = replaceNodeText(InitText(E2ENodes[i].node), Word("ko"))
         /\ content[E2ENodes[i].node] # InitText(E2ENodes[i].node)
    /\ Len(cache) = 3
    /\ getStatus(Dom) = [isTranslated |-> TRUE, count |-> 3]

C20_Witness ==
  /\ E2EThreeDistinct /\ E2ESettled
  /\ Len(cache) = 3
  /\ getStatus(Dom).count = 3


---------------------------------------------------------------------------
(* Statements about the language classification, under SpecLang *)

\* C21: Language classification.  For every text with k Hangul and e Latin
\* letters, k + e > 0, detectLanguage returns ko when k/(k+e) > 0.7, en
\* when k/(k+e) < 0.3 and mixed otherwise, the ratios 0.3 and 0.7
\* themselves being mixed; isSourceLanguage(text, src) is true exactly
\* when the classification is mixed or equals src.
C21_LanguageClassification ==
  lastOp.op = "classify" =>
    LET k == lastOp.korean
        e == lastOp.english
    IN  /\ (k + e > 0 /\ 10 * k > 7 * (k + e)) => lastOp.detected = "ko"
        /\ (k + e > 0 /\ 10 * k < 3 * (k + e)) => lastOp.detected = "en"
        /\ (k + e > 0 /\ 10 * k <= 7 * (k + e) /\ 10 * k >= 3 * (k + e))
             => lastOp.detected = "mixed"
        /\ lastOp.isSource
             <=> (lastOp.detected = "mixed" \/ lastOp.detected = lastOp.sourceLang)

\* a text at the ratio 0.7 exactly, classified mixed and eligible for the
\* source language en
C21_Witness ==
  /\ lastOp.op = "classify"
  /\ lastOp.korean = 7 /\ lastOp.english = 3
  /\ lastOp.sourceLang = "en"
  /\ lastOp.detected = "mixed" /\ lastOp.isSource

---------------------------------------------------------------------------
(* Statements about the batch construction, under SpecChunk *)

\* the items of the batches from batch j on, in order
RECURSIVE ConcatIndices(_, _)
ConcatIndices(batches, j) ==
  IF j > Len(batches) THEN <<>>
  ELSE batches[j].indices \o ConcatIndices(batches, j + 1)

\* C23: Chunking.  For every list of uncached misses, each batch built
\* from it holds between 1 and MAX_TEXTS_PER_REQUEST items, the batches
\* concatenated in order give back the uncached list exactly (every miss
\* is in exactly one batch), and each batch's node list is index-aligned
\* with its text list.
C23_Chunking ==
  lastOp.op = "batches" =>
    LET batches == lastOp.batches
    IN  /\ \A j \in 1..Len(batches) :
             /\ Len(batches[j].indices) >= 1
             /\ Len(batches[j].indices) <= lastOp.size
             /\ Len(batches[j].nodes) = Len(batches[j].indices)
             /\ \A k \in 1..Len(batches[j].indices) :
                  /\ batches[j].nodes[k]
                       = lastOp.newNodes[batches[j].indices[k].index + 1]
                  /\ batches[j].nodes[k].originalText = batches[j].indices[k].text
        /\ ConcatIndices(batches, 1) = lastOp.uncached

\* three misses among four nodes, cut into a batch of two and a batch of one
C23_Witness ==
  /\ lastOp.op = "batches"
  /\ Len(lastOp.newNodes) = 4 /\ Len(lastOp.uncached) = 3 /\ lastOp.size = 2
  /\ Len(lastOp.batches) = 2
  /\ Len(lastOp.batches[1].indices) = 2 /\ Len(lastOp.batches[2].indices) = 1

---------------------------------------------------------------------------
(* Statements about TranslationCache, under SpecCache *)

\* C11: cache partition.  getMultiple called with a list of n texts
\* returns cached and uncached whose indices are disjoint and together
\* are 0..n-1, every index once; uncached is in increasing index order and
\* each of its items carries the text at its index.
C11_CachePartition ==
  lastOp.op = "getMultiple" =>
    LET n == Len(lastOp.texts)
        ci == {lastOp.cached[k].index : k \in 1..Len(lastOp.cached)}
        ui == {lastOp.uncached[k].index : k \in 1..Len(lastOp.uncached)}
    IN  /\ ci \cap ui = {}
        /\ ci \cup ui = 0..(n - 1)
        /\ Cardinality(ci) = Len(lastOp.cached)
        /\ Cardinality(ui) = Len(lastOp.uncached)
        /\ \A k \in 1..(Len(lastOp.uncached) - 1) :
             lastOp.uncached[k].index < lastOp.uncached[k + 1].index
        /\ \A k \in 1..Len(lastOp.uncached) :
             lastOp.uncached[k].text = lastOp.texts[lastOp.uncached[k].index + 1]

\* C11 witness: a getMultiple has just returned a hit and a miss
C11_Witness ==
  /\ lastOp.op = "getMultiple"
  /\ lastOp.cached # <<>>
  /\ lastOp.uncached # <<>>

\* a stored entry is retrievable: get returns its translation unless the
\* entry has outlived the TTL
Retrievable(c, time, text, sourceLang, targetLang, translated) ==
  LET key == generateKey(text, sourceLang, targetLang)
  IN  /\ HasKey(c, key)
      /\ EntryOf(c, key).translated = translated
      /\ (time - EntryOf(c, key).timestamp <= ttl
            => get(c, time, text, sourceLang, targetLang).result = translated)

\* C9: capacity and eviction.  The cache never holds more than maxSize
\* entries; a set of a new key on a full cache removes exactly one entry,
\* one with the least timestamp of all, keeps every other entry as it was
\* and stores the new one.
C9_CapacityEviction ==
  [][/\ Len(cache') <= maxSize
     /\ LET o == lastOp'
            key == generateKey(o.text, o.sourceLang, o.targetLang)
        IN  (/\ o.op = "set"
             /\ CacheSet(o.text, o.translated, o.sourceLang, o.targetLang)
             /\ Len(cache) = maxSize
             /\ ~HasKey(cache, key))
            => /\ Len(cache') = maxSize
               /\ \E i \in 1..Len(cache) :
                    /\ \A k \in 1..Len(cache) :
                         cache[i].timestamp <= cache[k].timestamp
                    /\ ~HasKey(cache', cache[i].key)
                    /\ \A k \in (1..Len(cache)) \ {i} :
                         /\ HasKey(cache', cache[k].key)
                         /\ EntryOf(cache', cache[k].key) = cache[k]
               /\ Retrievable(cache', now', o.text, o.sourceLang, o.targetLang,
                              o.translated)
               /\ EntryOf(cache', key).timestamp = now
    ]_vars

\* C9 witness: a set of a new key has just been performed on a full cache
C9_Witness ==
  /\ lastOp.op = "set"
  /\ lastOp.sizeBefore = maxSize
  /\ ~lastOp.hadKey
  /\ Len(cache) = maxSize

\* C10: TTL expiry.  A set stamps the entry with the time of the call; a
\* get of a stored key whose age is at most ttl returns the stored
\* translation and leaves the cache alone; a get of a stored key whose age
\* exceeds ttl returns a miss and removes the entry; a get of an absent key
\* is a miss; and only a set of a key makes the key present again.
C10_TtlExpiry ==
  [][LET o == lastOp'
         key == generateKey(o.text, o.sourceLang, o.targetLang)
     IN  /\ (o.op = "get" /\ CacheGet(o.text, o.sourceLang, o.targetLang)) =>
               IF ~HasKey(cache, key)
               THEN o.result = NoText /\ cache' = cache
               ELSE IF now - EntryOf(cache, key).timestamp <= ttl
               THEN /\ o.result = EntryOf(cache, key).translated
                    /\ cache' = cache
               ELSE /\ o.result = NoText
                    /\ ~HasKey(cache', key)
                    /\ Len(cache') = Len(cache) - 1
         /\ (o.op = "set"
               /\ CacheSet(o.text, o.translated, o.sourceLang, o.targetLang)) =>
               /\ HasKey(cache', key)
               /\ EntryOf(cache', key)
                    = [key |-> key, translated |-> o.translated, timestamp |-> now]
         /\ \A i \in 1..Len(cache') :
              ~HasKey(cache, cache'[i].key) =>
                /\ o.op = "set"
                /\ cache'[i].key = key
                /\ CacheSet(o.text, o.translated, o.sourceLang, o.targetLang)
    ]_vars

\* C10 witness: a get has just found an entry older than ttl, by one
\* tick, and reported a miss
C10_Witness ==
  /\ lastOp.op = "get"
  /\ lastOp.hadKey
  /\ lastOp.age = ttl + 1
  /\ lastOp.result = NoText
  /\ ~HasKey(cache, generateKey(lastOp.text, lastOp.sourceLang, lastOp.targetLang))

\* a get has just found an entry of age exactly ttl and returned it
C10_BoundaryHit ==
  /\ lastOp.op = "get"
  /\ lastOp.hadKey
  /\ lastOp.age = ttl
  /\ lastOp.result # NoText

\* the indices of the cached map and of the uncached list getMultiple returned
CachedIndices(op) == {op.cached[k].index : k \in 1..Len(op.cached)}
UncachedIndices(op) == {op.uncached[k].index : k \in 1..Len(op.uncached)}

\* getMultiple's answer for position i agrees with get(texts[i]) on the
\* state before the call
AgreesWithGet(i) ==
  LET g == get(cache, now, lastOp'.texts[i], lastOp'.sourceLang, lastOp'.targetLang)
  IN  /\ g.result # NoText =>
             /\ \E k \in 1..Len(lastOp'.cached) :
                  /\ lastOp'.cached[k].index = i - 1
                  /\ lastOp'.cached[k].translated = g.result
             /\ (i - 1) \notin UncachedIndices(lastOp')
      /\ g.result = NoText =>
             /\ (i - 1) \in UncachedIndices(lastOp')
             /\ (i - 1) \notin CachedIndices(lastOp')

\* C25: getMultiple agrees with get.  For every cache state and every list
\* texts, index i is in the cached map with value v exactly when
\* get(texts[i], src, tgt) on the same state returns the hit v, and i is in
\* uncached exactly when that get returns a miss (null); entries whose
\* stored translation is the empty string are included.
C25_GetMultipleAgreesWithGet ==
  [][(lastOp'.op = "getMultiple" /\ now' = now) =>
       \A i \in 1..Len(lastOp'.texts) : AgreesWithGet(i)]_vars

\* the statement for the positions where get returns no empty string
C25_NonEmptyAgree ==
  [][(lastOp'.op = "getMultiple" /\ now' = now) =>
       \A i \in 1..Len(lastOp'.texts) :
         get(cache, now, lastOp'.texts[i], lastOp'.sourceLang,
             lastOp'.targetLang).result # <<>> => AgreesWithGet(i)]_vars

=============================================================================
